---- MODULE Spec2Model ----
(***************************************************************************)
(* A model of the skill registration layer (skill_framework/skills.py) and *)
(* of the report manager (skill_framework/pipelines.py).                   *)
(*                                                                         *)
(* Python strings that the code inspects character by character (parameter *)
(* names) are sequences of one-character strings.  Python objects are      *)
(* records tagged with their type in field t; a list is a reference into   *)
(* the heap, so that aliasing between returned instances is observable.    *)
(***************************************************************************)
EXTENDS Integers, Sequences, FiniteSets, TLC

VARIABLES
    declInput,   \* the arguments that SkillParameter(...) is called with
    decl,        \* the SkillParameter that the call constructed, or NoDecl
    declError,   \* the exception that the call raised, or "none"
    skill,       \* the Skill registration: name, description, parameters, nodes
    calls,       \* the create_input calls made so far, in order, with what each returned
    heap,        \* the list objects allocated so far: heap[ref] is the list's contents
    blocks,      \* the content_blocks of the managed report, as the host stores them
    lastOp,      \* the most recent ReportManager operation and the blocks it found
    initial,     \* the content_blocks of the report when its manager was created
    pending,     \* per thread, the add_content_block call it is inside of, if any
    log          \* the get_report and update_report requests the host served, in order

vars == <<declInput, decl, declError, skill, calls, heap, blocks, lastOp,
          initial, pending, log>>

skillVars == <<skill, calls, heap>>
declVars == <<declInput, decl, declError>>
threadVars == <<initial, pending, log>>
reportVars == <<blocks, lastOp, threadVars>>

----------------------------------------------------------------------------
(* Bounds of the model *)

MaxNameLen == 3
MaxParams == 2
MaxCalls == 2
MaxNodes == 1
MaxAppends == 1
MaxBlocks == 3
MaxAdds == 3

----------------------------------------------------------------------------
(* Python values *)

None == [t |-> "NoneType"]
Str(s) == [t |-> "str", v |-> s]
Tuple(items) == [t |-> "tuple", items |-> items]
ListRef(r) == [t |-> "list", ref |-> r]

----------------------------------------------------------------------------
(* Parameter names: str.isidentifier and keyword.iskeyword *)

Letters == {"a", "c", "d", "e", "f", "i", "j", "l", "m", "r", "s", "t", "x"}
Digits == {"0", "1"}
Underscore == "_"
\* A character that is neither a letter, a digit nor the underscore and that
\* Unicode allows inside an identifier, though not at its start: the middle dot.
MiddleDot == "U+00B7"

\* The characters that may start an identifier, and those that may continue one.
XID_Start == Letters \cup {Underscore}
XID_Continue == Letters \cup Digits \cup {Underscore, MiddleDot}

isidentifier(name) ==
    /\ Len(name) > 0
    /\ name[1] \in XID_Start
    /\ \A i \in 2..Len(name) : name[i] \in XID_Continue

\* keyword.kwlist
kwlist ==
    { <<"F", "a", "l", "s", "e">>,
      <<"N", "o", "n", "e">>,
      <<"T", "r", "u", "e">>,
      <<"a", "n", "d">>,
      <<"a", "s">>,
      <<"a", "s", "s", "e", "r", "t">>,
      <<"a", "s", "y", "n", "c">>,
      <<"a", "w", "a", "i", "t">>,
      <<"b", "r", "e", "a", "k">>,
      <<"c", "l", "a", "s", "s">>,
      <<"c", "o", "n", "t", "i", "n", "u", "e">>,
      <<"d", "e", "f">>,
      <<"d", "e", "l">>,
      <<"e", "l", "i", "f">>,
      <<"e", "l", "s", "e">>,
      <<"e", "x", "c", "e", "p", "t">>,
      <<"f", "i", "n", "a", "l", "l", "y">>,
      <<"f", "o", "r">>,
      <<"f", "r", "o", "m">>,
      <<"g", "l", "o", "b", "a", "l">>,
      <<"i", "f">>,
      <<"i", "m", "p", "o", "r", "t">>,
      <<"i", "n">>,
      <<"i", "s">>,
      <<"l", "a", "m", "b", "d", "a">>,
      <<"n", "o", "n", "l", "o", "c", "a", "l">>,
      <<"n", "o", "t">>,
      <<"o", "r">>,
      <<"p", "a", "s", "s">>,
      <<"r", "a", "i", "s", "e">>,
      <<"r", "e", "t", "u", "r", "n">>,
      <<"t", "r", "y">>,
      <<"w", "h", "i", "l", "e">>,
      <<"w", "i", "t", "h">>,
      <<"y", "i", "e", "l", "d">> }

iskeyword(name) == name \in kwlist

\* Faulty variant: the keyword test is left out.
is_valid_parameter_name_any_identifier(name) == isidentifier(name)

is_valid_parameter_name(name) == isidentifier(name) /\ ~iskeyword(name)

\* SkillParameter.validate_name, the field validator of name: returns the name
\* or raises ValueError, which pydantic reports as a ValidationError.
validate_name(v) ==
    IF ~is_valid_parameter_name(v)
    THEN [ok |-> FALSE, error |-> "ValidationError"]
    ELSE [ok |-> TRUE, value |-> v]

\* SkillParameter(name=..., constrained_to=..., is_multi=..., description=...,
\* constrained_values=...): the declaration, or the validation error.
SkillParameter(name, constrained_to, is_multi, description, constrained_values) ==
    LET n == validate_name(name)
    IN  IF ~n.ok
        THEN [ok |-> FALSE, error |-> n.error]
        ELSE [ok |-> TRUE,
              value |-> [name |-> n.value,
                         constrained_to |-> constrained_to,
                         is_multi |-> is_multi,
                         description |-> description,
                         constrained_values |-> constrained_values]]

NoDecl == [t |-> "NoDecl"]

\* The names, and the other attributes, that declarations are constructed with.
NameAlphabet == {"i", "f", "s", "1", Underscore, MiddleDot, "-"}
NameClass == <<"c", "l", "a", "s", "s">>
NameMetric1 == <<"m", "e", "t", "r", "i", "c", "_", "1">>
NameInputs ==
    UNION {[1..k -> NameAlphabet] : k \in 0..MaxNameLen} \cup {NameClass, NameMetric1}

MetaInputs ==
    { [constrained_to |-> None, description |-> None, constrained_values |-> <<>>],
      [constrained_to |-> Str("metric"), description |-> Str("what to measure"),
       constrained_values |-> <<"b">>] }

\* One SkillParameter(...) call: it leaves the declaration, or the error raised.
NewSkillParameter(name, is_multi, meta) ==
    LET r == SkillParameter(name, meta.constrained_to, is_multi, meta.description,
                            meta.constrained_values)
    IN  /\ UNCHANGED declInput
        /\ decl' = IF r.ok THEN r.value ELSE NoDecl
        /\ declError' = IF r.ok THEN "none" ELSE r.error
        /\ UNCHANGED <<skillVars, reportVars>>

----------------------------------------------------------------------------
(* Skill registration and argument binding *)

FnName == Str("dummy_skill")

Dict(items) == [t |-> "dict", items |-> items]
EmptyItems == [k \in {} |-> None]

PyList(items) == [t |-> "pylist", items |-> items]

\* Python truthiness: None, the empty dict and the empty list are falsy.
Falsy(x) == x = None \/ (x.t \in {"dict", "pylist"} /\ DOMAIN x.items = {})

\* Skill.__init__
SkillInit(fn_name, name, description, parameters) ==
    [fn |-> fn_name,
     parameters |-> IF Falsy(parameters) THEN <<>> ELSE parameters.items,
     name |-> IF name = None THEN fn_name ELSE name,
     description |-> description,
     nodes |-> <<>>]

\* Node.__init__(fn, skill=self): the node is named after its function.
NodeInit(fn_name) == [fn |-> fn_name, name |-> fn_name]

field_type(p) == IF p.is_multi THEN "list[Any]" ELSE "Any | None"

\* Faulty variant: every field gets default_factory=list.
parameter_field_always_list(p) == [default_factory |-> "list"]

parameter_field(p) ==
    IF p.is_multi THEN [default_factory |-> "list"] ELSE [default |-> None]

\* d[k] = v on a dict that remembers the order in which its keys were inserted.
DictSet(d, k, v) ==
    [keys |-> IF k \in DOMAIN d.val THEN d.keys ELSE Append(d.keys, k),
     val |-> [x \in DOMAIN d.val \cup {k} |-> IF x = k THEN v ELSE d.val[x]]]

\* fields = {param.name: (field_type(param), parameter_field(param))
\*           for param in skill.parameters}
RECURSIVE FieldsFrom(_, _, _)
FieldsFrom(parameters, i, d) ==
    IF i > Len(parameters) THEN d
    ELSE FieldsFrom(parameters, i + 1,
                    DictSet(d, parameters[i].name,
                            [type |-> field_type(parameters[i]),
                             field |-> parameter_field(parameters[i])]))

fields_of(parameters) == FieldsFrom(parameters, 1, [keys |-> <<>>, val |-> EmptyItems])

\* pydantic's create_model('SkillArguments', **fields): a field whose name starts
\* with an underscore is refused with NameError.
create_model(fields) ==
    IF \E i \in 1..Len(fields.keys) : fields.keys[i][1] = Underscore
    THEN [ok |-> FALSE, error |-> "NameError"]
    ELSE [ok |-> TRUE, value |-> fields]

\* pydantic's validation of one supplied value against a field's type.  list[Any]
\* takes a list or a tuple and yields a new list of the same items; anything else
\* is a validation error.  Any | None takes every value as it is.
validate_field(type, v, h) ==
    IF type = "list[Any]"
    THEN IF v.t = "list"
         THEN [ok |-> TRUE, value |-> ListRef(Len(h) + 1), heap |-> Append(h, h[v.ref])]
         ELSE IF v.t = "tuple"
         THEN [ok |-> TRUE, value |-> ListRef(Len(h) + 1), heap |-> Append(h, v.items)]
         ELSE [ok |-> FALSE, error |-> "ValidationError"]
    ELSE [ok |-> TRUE, value |-> v, heap |-> h]

\* Faulty variant: the default of a list field is one shared list object.
field_default_shared(field, h) ==
    IF "default_factory" \in DOMAIN field
    THEN [value |-> ListRef(1), heap |-> h]
    ELSE [value |-> field.default, heap |-> h]

\* The default of a field that was not supplied: default_factory=list allocates a
\* new empty list, default=None is None.
field_default(field, h) ==
    IF "default_factory" \in DOMAIN field
    THEN [value |-> ListRef(Len(h) + 1), heap |-> Append(h, <<>>)]
    ELSE [value |-> field.default, heap |-> h]

\* cls(**assign_args): every field of the model class, in order, from the supplied
\* value or from its default.
RECURSIVE Instantiate(_, _, _, _, _)
Instantiate(cls, kwargs, i, acc, h) ==
    IF i > Len(cls.keys) THEN [ok |-> TRUE, value |-> acc, heap |-> h]
    ELSE LET n == cls.keys[i]
             f == cls.val[n]
             put(v) == [x \in DOMAIN acc \cup {n} |-> IF x = n THEN v ELSE acc[x]]
         IN  IF n \in DOMAIN kwargs
             THEN LET r == validate_field(f.type, kwargs[n], h)
                  IN  IF r.ok
                      THEN Instantiate(cls, kwargs, i + 1, put(r.value), r.heap)
                      ELSE [ok |-> FALSE, error |-> r.error]
             ELSE LET r == field_default(f.field, h)
                  IN  Instantiate(cls, kwargs, i + 1, put(r.value), r.heap)

\* valid_parameter_names = [param.name for param in skill.parameters]
valid_parameter_names(sk) == [i \in 1..Len(sk.parameters) |-> sk.parameters[i].name]

\* Faulty variant: the membership test of the filter is inverted.
assign_args_inverted(names, arguments) ==
    [k \in {k \in DOMAIN arguments.items : ~\E i \in 1..Len(names) : names[i] = k}
        |-> arguments.items[k]]

\* assign_args = {k: v for k, v in arguments.items() if k in valid_parameter_names}
assign_args(names, arguments) ==
    [k \in {k \in DOMAIN arguments.items : \E i \in 1..Len(names) : names[i] = k}
        |-> arguments.items[k]]

\* Faulty variant: the undeclared keys are deleted from the caller's mapping itself.
create_skill_arguments_filtering_in_place(sk, arguments, h) ==
    LET cls == create_model(fields_of(sk.parameters))
        kept == Dict(assign_args(valid_parameter_names(sk), arguments))
    IN  IF ~cls.ok
        THEN [ok |-> FALSE, error |-> cls.error, heap |-> h, arguments |-> kept]
        ELSE LET r == Instantiate(cls.value, kept.items, 1, EmptyItems, h)
             IN  IF r.ok
                 THEN [ok |-> TRUE, value |-> r.value, heap |-> r.heap, arguments |-> kept]
                 ELSE [ok |-> FALSE, error |-> r.error, heap |-> h, arguments |-> kept]

\* _create_skill_arguments(skill, arguments) on heap h: the SkillArguments
\* instance and the heap it leaves, or the exception raised.  arguments is the
\* caller's mapping as the call leaves it.
_create_skill_arguments(sk, arguments, h) ==
    LET cls == create_model(fields_of(sk.parameters))
    IN  IF ~cls.ok
        THEN [ok |-> FALSE, error |-> cls.error, heap |-> h, arguments |-> arguments]
        ELSE LET r == Instantiate(cls.value,
                                  assign_args(valid_parameter_names(sk), arguments),
                                  1, EmptyItems, h)
             IN  IF r.ok
                 THEN [ok |-> TRUE, value |-> r.value, heap |-> r.heap,
                       arguments |-> arguments]
                 ELSE [ok |-> FALSE, error |-> r.error, heap |-> h,
                       arguments |-> arguments]

\* Skill.create_input(assistant_id, arguments)
create_input(sk, assistant_id, arguments, h) ==
    LET r == _create_skill_arguments(sk, IF Falsy(arguments) THEN Dict(EmptyItems)
                                        ELSE arguments, h)
    IN  IF r.ok
        THEN [ok |-> TRUE, heap |-> r.heap,
              arguments |-> IF Falsy(arguments) THEN arguments ELSE r.arguments,
              value |-> [assistant_id |-> assistant_id, arguments |-> r.value]]
        ELSE [ok |-> FALSE, error |-> r.error, heap |-> r.heap,
              arguments |-> IF Falsy(arguments) THEN arguments ELSE r.arguments]

----------------------------------------------------------------------------
(* The operations on one registration *)

\* What a value looks like to its reader: a list shows its current contents.
Deep(v, h) == IF v.t = "list" THEN [t |-> "list", items |-> h[v.ref]] ELSE v
DeepItems(f, h) == [k \in DOMAIN f |-> Deep(f[k], h)]
DeepArgs(a, h) == IF a = None THEN None ELSE Dict(DeepItems(a.items, h))

\* skill.create_input(assistant_id, arguments).  The call is recorded with the
\* mapping as it was given (given) and as the call left it (after), and with the
\* SkillInput returned (result) and its contents at the time of return (returned).
CreateInput(assistant_id, arguments) ==
    LET r == create_input(skill, assistant_id, arguments, heap)
    IN  /\ heap' = r.heap
        /\ calls' = Append(calls,
              [assistant_id |-> assistant_id,
               arguments |-> arguments,
               given |-> DeepArgs(arguments, heap),
               after |-> DeepArgs(r.arguments, r.heap),
               ok |-> r.ok,
               error |-> IF r.ok THEN "none" ELSE r.error,
               result |-> IF r.ok THEN r.value ELSE None,
               returned |-> IF r.ok
                            THEN [assistant_id |-> r.value.assistant_id,
                                  arguments |-> DeepItems(r.value.arguments, r.heap)]
                            ELSE None])
        /\ UNCHANGED <<skill, declVars, reportVars>>

\* skill.node(fn)
AddNode(fn_name) ==
    /\ Len(skill.nodes) < MaxNodes
    /\ skill' = [skill EXCEPT !.nodes = Append(@, NodeInit(fn_name))]
    /\ UNCHANGED <<calls, heap, declVars, reportVars>>

\* skill(...): forwards to the wrapped function and touches nothing of the registration.
CallSkill ==
    /\ skill.fn = FnName
    /\ UNCHANGED vars

\* The number of elements that callers have appended to lists so far.
RECURSIVE CountAppended(_, _)
CountAppended(h, r) ==
    IF r > Len(h) THEN 0
    ELSE Cardinality({k \in 1..Len(h[r]) : h[r][k] = "z"}) + CountAppended(h, r + 1)

\* skill_input.arguments.<n>.append("z") on the instance that call i returned.
AppendToField(i, n) ==
    /\ calls[i].ok
    /\ n \in DOMAIN calls[i].result.arguments
    /\ calls[i].result.arguments[n].t = "list"
    /\ CountAppended(heap, 1) < MaxAppends
    /\ heap' = [heap EXCEPT ![calls[i].result.arguments[n].ref] = Append(@, "z")]
    /\ UNCHANGED <<skill, calls, declVars, reportVars>>

----------------------------------------------------------------------------
(* Inputs *)

NameM == <<"m">>
NameD == <<"d">>
NameUX == <<"_", "x">>
NameIf == <<"i", "f">>
NameJ == <<"j">>

\* Every declaration that SkillParameter(...) constructs from the given names.
DeclsOver(names, metas) ==
    LET made == {SkillParameter(n, m.constrained_to, im, m.description,
                                m.constrained_values) :
                    n \in names, im \in BOOLEAN, m \in metas}
    IN  {r.value : r \in {x \in made : x.ok}}

DeclSeqs(decls) == UNION {[1..k -> decls] : k \in 0..MaxParams}

PlainMeta == [constrained_to |-> None, description |-> None, constrained_values |-> <<>>]

\* The list object that callers pass in raw mappings; it is heap[1].
CallerList == <<"b", "a">>

DictsOver(keys, values) ==
    {Dict(f) : f \in UNION {[ks -> values] : ks \in SUBSET keys}}

BindArgs == {None} \cup
    DictsOver({NameM, NameD, NameJ}, {None, Str("a"), ListRef(1), Tuple(<<"a", "b">>)})

\* The create_input calls made on a registration with a history: with arguments
\* omitted, empty, supplying a list beside an undeclared key, and supplying a str.
HistCalls ==
    { [assistant_id |-> None, arguments |-> None],
      [assistant_id |-> Str("asst"), arguments |-> Dict(EmptyItems)],
      [assistant_id |-> None, arguments |-> Dict(NameJ :> Str("a") @@ NameM :> ListRef(1))],
      [assistant_id |-> None, arguments |-> Dict(NameM :> Str("a"))] }

NoOp == [op |-> "none"]

InitIdleDecl == declInput = NoDecl /\ decl = NoDecl /\ declError = "none"

\* The threads that share one ReportManager.
Threads == {1, 2}
Idle == [pc |-> "idle"]

InitIdleReport ==
    /\ blocks = <<>> /\ lastOp = NoOp
    /\ initial = <<>> /\ pending = [t \in Threads |-> Idle] /\ log = <<>>
InitIdleSkill ==
    /\ skill = SkillInit(FnName, None, None, None)
    /\ calls = <<>>
    /\ heap = <<CallerList>>

----------------------------------------------------------------------------
(* SpecBind: one create_input call on every registration, with every mapping *)

InitBind ==
    /\ skill \in {SkillInit(FnName, Str("some_skill"), None, PyList(D)) :
                    D \in DeclSeqs(DeclsOver({NameM, NameD, NameUX, NameIf}, MetaInputs))}
    /\ calls = <<>>
    /\ heap = <<CallerList>>
    /\ InitIdleDecl /\ InitIdleReport

NextBind ==
    /\ calls = <<>>
    /\ \E a \in {None} : \E args \in BindArgs : CreateInput(a, args)

SpecBind == InitBind /\ [][NextBind]_vars

----------------------------------------------------------------------------
(* Spec: sequences of operations on one registration *)

Init ==
    /\ skill \in {SkillInit(FnName, Str("some_skill"), None, PyList(D)) :
                    D \in DeclSeqs(DeclsOver({NameM, NameD}, {PlainMeta}))}
    /\ calls = <<>>
    /\ heap = <<CallerList>>
    /\ InitIdleDecl /\ InitIdleReport

Next ==
    \/ /\ Len(calls) < MaxCalls
       /\ \E c \in HistCalls : CreateInput(c.assistant_id, c.arguments)
    \/ AddNode(Str("step"))
    \/ CallSkill
    \/ \E i \in 1..Len(calls) : \E n \in {NameM, NameD} : AppendToField(i, n)

Spec == Init /\ [][Next]_vars

----------------------------------------------------------------------------
(* SpecNames: SkillParameter construction over every name *)

InitNames ==
    /\ declInput \in [name : NameInputs, is_multi : BOOLEAN, meta : MetaInputs]
    /\ decl = NoDecl
    /\ declError = "none"
    /\ InitIdleSkill /\ InitIdleReport

NextNames ==
    /\ decl = NoDecl /\ declError = "none"
    /\ NewSkillParameter(declInput.name, declInput.is_multi, declInput.meta)

SpecNames == InitNames /\ [][NextNames]_vars

----------------------------------------------------------------------------
(* The report manager *)

UUID(n) == [t |-> "UUID", int |-> n]

\* str(uuid): the canonical text of a UUID.
UuidText ==
    <<"00000000-0000-4000-8000-000000000001",
      "00000000-0000-4000-8000-000000000002",
      "00000000-0000-4000-8000-000000000003">>
uuid_str(u) == Str(UuidText[u.int])

\* ContentBlock.id defaults to uuid.uuid4(), evaluated once when the class is
\* defined: every block created without an id carries this one value.
ContentBlockDefaultId == UUID(3)

Omitted == [t |-> "omitted"]

\* ContentBlock(id=..., title=..., layout_json=...)
ContentBlock(id, title) ==
    [id |-> IF id = Omitted THEN ContentBlockDefaultId ELSE id, title |-> title]

\* a == b and a != b on identifiers: a UUID equals only a UUID of the same value,
\* a str only the same str.
py_eq(a, b) ==
    IF a.t = "UUID" /\ b.t = "UUID" THEN a.int = b.int
    ELSE IF a.t = "str" /\ b.t = "str" THEN a.v = b.v
    ELSE FALSE
py_ne(a, b) == ~py_eq(a, b)

\* ReportManager.get_report: the report as the host holds it.
get_report(stored) == [content_blocks |-> stored]

\* ReportManager.update_report / tools.update_report(report_id, updates): only the
\* fields named in updates are replaced.
update_report(stored, updates) ==
    IF "content_blocks" \in DOMAIN updates THEN updates.content_blocks ELSE stored

\* Faulty variant: the new block is put in front of the current blocks.
add_content_block_updates_prepended(current_report, new_block) ==
    [content_blocks |-> <<new_block>> \o current_report.content_blocks]

\* The updates that add_content_block sends:
\* {"content_blocks": [*current_report.content_blocks, new_block]}
add_content_block_updates(current_report, new_block) ==
    [content_blocks |-> current_report.content_blocks \o <<new_block>>]

\* ReportManager.add_content_block(new_block)
add_content_block(stored, new_block) ==
    LET current_report == get_report(stored)
    IN  update_report(stored, add_content_block_updates(current_report, new_block))

\* ReportManager.remove_content_block(block_id)
remove_content_block(stored, block_id) ==
    LET current_report == get_report(stored)
        keep(block) == py_ne(block.id, block_id)
    IN  update_report(stored,
            [content_blocks |-> SelectSeq(current_report.content_blocks, keep)])

AddContentBlock(new_block) ==
    /\ Len(blocks) < MaxBlocks
    /\ blocks' = add_content_block(blocks, new_block)
    /\ lastOp' = [op |-> "add", block |-> new_block, before |-> blocks]
    /\ UNCHANGED <<declVars, skillVars, threadVars>>

RemoveContentBlock(block_id) ==
    /\ blocks' = remove_content_block(blocks, block_id)
    /\ lastOp' = [op |-> "remove", block_id |-> block_id, before |-> blocks]
    /\ UNCHANGED <<declVars, skillVars, threadVars>>

BlockIdInputs == {Omitted, UUID(1), UUID(2)}
BlockInputs == {ContentBlock(id, title) : id \in BlockIdInputs, title \in {"A", "B"}}
StoredIds == {UUID(1), UUID(2), ContentBlockDefaultId}

InitReport == InitIdleDecl /\ InitIdleSkill /\ InitIdleReport

NextReport ==
    \/ \E b \in BlockInputs : AddContentBlock(b)
    \/ \E id \in StoredIds : RemoveContentBlock(uuid_str(id))
    \/ \E id \in StoredIds : RemoveContentBlock(id)

SpecReport == InitReport /\ [][NextReport]_vars

----------------------------------------------------------------------------
(* The report manager used from more than one thread *)

\* add_content_block makes two requests to the host, get_report and then
\* update_report; nothing in ReportManager keeps another thread's requests from
\* being served between them.

\* The number of add_content_block calls started so far.
AddsStarted == Cardinality({k \in 1..Len(log) : log[k].ev = "get"})

\* add_content_block(new_block) up to the return of get_report:
\*     current_report = self.get_report()
AddGetReport(t, new_block) ==
    /\ pending[t] = Idle
    /\ AddsStarted < MaxAdds
    /\ pending' = [pending EXCEPT ![t] =
            [pc |-> "read", new_block |-> new_block,
             current_report |-> get_report(blocks)]]
    /\ log' = Append(log, [ev |-> "get", who |-> t, block |-> new_block,
                           content_blocks |-> blocks])
    /\ UNCHANGED <<blocks, lastOp, initial, declVars, skillVars>>

\* add_content_block(new_block) from there to its return:
\*     self.tools.update_report(self.report_id, {"content_blocks": [...]})
AddUpdateReport(t) ==
    /\ pending[t] # Idle
    /\ LET updates == add_content_block_updates(pending[t].current_report,
                                                pending[t].new_block)
       IN  /\ blocks' = update_report(blocks, updates)
           /\ log' = Append(log, [ev |-> "update", who |-> t,
                                  block |-> pending[t].new_block,
                                  content_blocks |-> updates.content_blocks])
    /\ lastOp' = [op |-> "add", block |-> pending[t].new_block,
                  before |-> pending[t].current_report.content_blocks]
    /\ pending' = [pending EXCEPT ![t] = Idle]
    /\ UNCHANGED <<initial, declVars, skillVars>>

InitialBlocks == {<<>>, <<ContentBlock(UUID(2), "B")>>}

\* The blocks that the threads add: two without an id, which share the default
\* one, and one with an id of its own.
ThreadBlockInputs ==
    {ContentBlock(Omitted, "A"), ContentBlock(Omitted, "B"), ContentBlock(UUID(1), "A")}

InitThreads ==
    /\ InitIdleDecl /\ InitIdleSkill
    /\ initial \in InitialBlocks
    /\ blocks = initial
    /\ lastOp = NoOp
    /\ pending = [t \in Threads |-> Idle]
    /\ log = <<>>

NextThreads ==
    \/ \E t \in Threads, b \in ThreadBlockInputs : AddGetReport(t, b)
    \/ \E t \in Threads : AddUpdateReport(t)

SpecThreads == InitThreads /\ [][NextThreads]_vars

----------------------------------------------------------------------------
(* Vocabulary of the properties *)

Params == skill.parameters
DeclaredNames == {Params[k].name : k \in 1..Len(Params)}

\* Declaration k is the last one of its name in declaration order.
IsLastOfName(k) == \A j \in (k + 1)..Len(Params) : Params[j].name # Params[k].name
LastDecl(n) == Params[CHOOSE k \in 1..Len(Params) : Params[k].name = n /\ IsLastOfName(k)]
HasRepeatedName == \E j, k \in 1..Len(Params) : j # k /\ Params[j].name = Params[k].name

\* The keys of the raw mapping of a call (none when it is omitted or null).
RawKeys(c) == IF c.arguments = None THEN {} ELSE DOMAIN c.arguments.items
UndeclaredKeys(c) == RawKeys(c) \ DeclaredNames

EmptyList == [t |-> "list", items |-> <<>>]
ItemsOf(v) == IF v.t \in {"list", "tuple"} THEN v.items ELSE <<>>

\* The raw mapping of a call without its undeclared keys.
WithoutUndeclared(c) ==
    IF c.arguments = None THEN None
    ELSE Dict([k \in RawKeys(c) \cap DeclaredNames |-> c.arguments.items[k]])

\* The declarations with constrained_to, constrained_values and description reset.
Unconstrained(sk) ==
    [sk EXCEPT !.parameters =
        [k \in 1..Len(sk.parameters) |->
            [sk.parameters[k] EXCEPT !.constrained_to = None,
                                     !.description = None,
                                     !.constrained_values = <<>>]]]

\* What create_input returns, as its caller reads it, or the exception.
Outcome(r) ==
    IF r.ok THEN [ok |-> TRUE, fields |-> DeepItems(r.value.arguments, r.heap)]
    ELSE [ok |-> FALSE, error |-> r.error]
OutcomeOf(c) ==
    IF c.ok THEN [ok |-> TRUE, fields |-> c.returned.arguments]
    ELSE [ok |-> FALSE, error |-> c.error]

----------------------------------------------------------------------------
(* Properties of one create_input call (specification SpecBind) *)

\* C1: create_input is total: every call, whatever the declarations (underscore
\* names and repeated names included) and whatever the raw mapping (values of any
\* shape included), returns an instance whose field names are exactly the
\* declared names.
C1_CreateInputTotal ==
    \A i \in 1..Len(calls) :
        /\ calls[i].ok
        /\ DOMAIN calls[i].result.arguments = DeclaredNames

\* C3 as stated: every single-valued declaration absent from the raw mapping
\* leaves None in its field of the returned instance.
C3_SingleAbsentIsNone ==
    \A i \in 1..Len(calls) : \A k \in 1..Len(Params) :
        (calls[i].ok /\ ~Params[k].is_multi /\ Params[k].name \notin RawKeys(calls[i]))
            => calls[i].result.arguments[Params[k].name] = None

\* C3 amended: every single-valued declaration that is the last of its name in
\* declaration order and is absent from the raw mapping leaves None (not an empty
\* string, not an empty sequence) in its field of the returned instance.
C3_LastSingleAbsentIsNone ==
    \A i \in 1..Len(calls) : \A k \in 1..Len(Params) :
        (/\ calls[i].ok
         /\ ~Params[k].is_multi
         /\ IsLastOfName(k)
         /\ Params[k].name \notin RawKeys(calls[i]))
            => /\ Params[k].name \in DOMAIN calls[i].result.arguments
               /\ calls[i].result.arguments[Params[k].name] = None
               /\ calls[i].returned.arguments[Params[k].name] = None

\* C3 witness: a call that supplied other keys returned an instance whose single-valued
\* field, absent from the mapping, is None.
C3_Witness ==
    \E i \in 1..Len(calls) : \E k \in 1..Len(Params) :
        /\ calls[i].ok
        /\ ~Params[k].is_multi /\ IsLastOfName(k)
        /\ Params[k].name \notin RawKeys(calls[i])
        /\ RawKeys(calls[i]) # {}
        /\ calls[i].result.arguments[Params[k].name] = None

\* C4: a call whose raw mapping holds an undeclared key succeeds, the key is no
\* field of the returned instance, and the declared fields are those of the same
\* call without the undeclared keys.
C4_UndeclaredKeyIgnored ==
    \A i \in 1..Len(calls) :
        UndeclaredKeys(calls[i]) # {}
            => /\ calls[i].ok
               /\ UndeclaredKeys(calls[i]) \cap DOMAIN calls[i].result.arguments = {}
               /\ OutcomeOf(calls[i]) =
                     Outcome(create_input(skill, calls[i].assistant_id,
                                          WithoutUndeclared(calls[i]), <<CallerList>>))

\* C5 as stated: for every declaration whose name the raw mapping supplies, the
\* field holds the supplied value (for a multi-valued declaration a supplied
\* sequence keeps its items and order, for a single-valued declaration the field
\* equals the supplied value), and every other declared field holds its default.
C5_EachSuppliedDeclarationBound ==
    \A i \in 1..Len(calls) : \A k \in 1..Len(Params) :
        calls[i].ok
            => IF Params[k].name \in RawKeys(calls[i])
               THEN IF Params[k].is_multi
                    THEN ItemsOf(calls[i].returned.arguments[Params[k].name])
                            = ItemsOf(calls[i].given.items[Params[k].name])
                    ELSE calls[i].returned.arguments[Params[k].name]
                            = calls[i].given.items[Params[k].name]
               ELSE calls[i].returned.arguments[Params[k].name]
                       = IF LastDecl(Params[k].name).is_multi THEN EmptyList ELSE None

\* C5 amended: in the returned instance every declared field that the raw mapping
\* supplies holds the supplied value as the last declaration of its name takes it
\* (multi-valued: a list of the supplied items in their order; single-valued: the
\* supplied value itself), and every other declared field holds the default of
\* the last declaration of its name.
C5_SuppliedValuesBound ==
    \A i \in 1..Len(calls) : \A n \in DeclaredNames :
        calls[i].ok
            => /\ n \in DOMAIN calls[i].result.arguments
               /\ IF n \in RawKeys(calls[i])
                  THEN IF LastDecl(n).is_multi
                       THEN /\ calls[i].returned.arguments[n].t = "list"
                            /\ calls[i].returned.arguments[n].items
                                  = ItemsOf(calls[i].given.items[n])
                       ELSE /\ calls[i].result.arguments[n] = calls[i].arguments.items[n]
                            /\ calls[i].returned.arguments[n] = calls[i].given.items[n]
                  ELSE IF LastDecl(n).is_multi
                       THEN calls[i].returned.arguments[n] = EmptyList
                       ELSE calls[i].returned.arguments[n] = None

\* C5 witness, the scenario of test_args: metrics multi-valued and supplied as a list, dim
\* single-valued and absent.
C5_Witness ==
    /\ Len(Params) = 2
    /\ Params[1].name = NameM /\ Params[1].is_multi
    /\ Params[2].name = NameD /\ ~Params[2].is_multi
    /\ Len(calls) = 1 /\ calls[1].ok
    /\ RawKeys(calls[1]) = {NameM}
    /\ calls[1].arguments.items[NameM] = ListRef(1)
    /\ calls[1].returned.arguments[NameM] = [t |-> "list", items |-> CallerList]
    /\ calls[1].returned.arguments[NameD] = None

\* C7: constrained_to, constrained_values and description are never enforced:
\* every call succeeds, and succeeds with the same fields on the declarations
\* stripped of them.
C7_ConstraintsNotEnforced ==
    \A i \in 1..Len(calls) :
        /\ calls[i].ok
        /\ OutcomeOf(calls[i]) =
              Outcome(create_input(Unconstrained(skill), calls[i].assistant_id,
                                   calls[i].arguments, <<CallerList>>))

\* C9: with a repeated name among the declarations create_input does not fail,
\* the instance has one field of that name, and the field's multiplicity and
\* default are those of the last declaration of the name.
C9_DuplicateNamesLastWins ==
    \A i \in 1..Len(calls) :
        HasRepeatedName
            => /\ calls[i].ok
               /\ DOMAIN calls[i].result.arguments = DeclaredNames
               /\ \A n \in DeclaredNames \ RawKeys(calls[i]) :
                     calls[i].returned.arguments[n]
                        = IF LastDecl(n).is_multi THEN EmptyList ELSE None

----------------------------------------------------------------------------
(* Properties of sequences of operations on one registration (specification Spec) *)

\* The list objects that the instance returned by call i holds.
ListRefsOf(i) ==
    IF calls[i].ok
    THEN {calls[i].result.arguments[n].ref :
            n \in {x \in DOMAIN calls[i].result.arguments :
                      calls[i].result.arguments[x].t = "list"}}
    ELSE {}

\* The list objects that callers passed in raw mappings.
CallerRefs ==
    UNION {{calls[i].arguments.items[n].ref :
              n \in {x \in RawKeys(calls[i]) : calls[i].arguments.items[x].t = "list"}} :
           i \in 1..Len(calls)}

\* Field n of the instance returned by call i is an empty list at the time of
\* return, and a list object that no other returned instance and no caller holds.
FreshEmptyList(i, n) ==
    /\ n \in DOMAIN calls[i].result.arguments
    /\ calls[i].returned.arguments[n] = EmptyList
    /\ calls[i].result.arguments[n].t = "list"
    /\ calls[i].result.arguments[n].ref \notin CallerRefs
    /\ \A j \in 1..Len(calls) :
          j # i => calls[i].result.arguments[n].ref \notin ListRefsOf(j)
    /\ \A m \in DOMAIN calls[i].result.arguments :
          m # n => calls[i].result.arguments[m] # calls[i].result.arguments[n]

\* C2 as stated: every multi-valued declaration absent from the raw mapping
\* leaves in its field an empty list that is an object of this call alone.
C2_MultiAbsentIsFreshEmpty ==
    \A i \in 1..Len(calls) : \A k \in 1..Len(Params) :
        (calls[i].ok /\ Params[k].is_multi /\ Params[k].name \notin RawKeys(calls[i]))
            => FreshEmptyList(i, Params[k].name)

\* C2 amended: every multi-valued declaration that is the last of its name in
\* declaration order and is absent from the raw mapping (omitted, null, empty or
\* naming other keys) leaves in its field an empty list, and that list is an
\* object of this call alone: no other returned instance and no caller holds it,
\* so appending to it changes no field of another instance.
C2_LastMultiAbsentIsFreshEmpty ==
    \A i \in 1..Len(calls) : \A k \in 1..Len(Params) :
        (/\ calls[i].ok
         /\ Params[k].is_multi
         /\ IsLastOfName(k)
         /\ Params[k].name \notin RawKeys(calls[i]))
            => FreshEmptyList(i, Params[k].name)

\* C2 witness: two calls left the multi-valued parameter to its default; the caller appended
\* to the list of the first instance, and the list of the second is still empty.
C2_Witness ==
    /\ Len(calls) = 2 /\ calls[1].ok /\ calls[2].ok
    /\ \E k \in 1..Len(Params) :
          /\ Params[k].is_multi /\ IsLastOfName(k)
          /\ Params[k].name \notin RawKeys(calls[1]) \cup RawKeys(calls[2])
          /\ heap[calls[1].result.arguments[Params[k].name].ref] = <<"z">>
          /\ heap[calls[2].result.arguments[Params[k].name].ref] = <<>>

\* C10, the state part: no call modified the raw mapping it was given, and calls
\* with equal assistant_id and equal raw mapping returned equal contents (or
\* raised the same exception), whatever happened in between.
C10_EqualCallsEqualResults ==
    /\ \A i \in 1..Len(calls) : calls[i].after = calls[i].given
    /\ \A i, j \in 1..Len(calls) :
          (calls[i].assistant_id = calls[j].assistant_id /\ calls[i].given = calls[j].given)
              => /\ calls[i].ok = calls[j].ok
                 /\ calls[i].error = calls[j].error
                 /\ calls[i].returned = calls[j].returned

\* C10, the step part: a create_input call leaves the registration's name,
\* description and declarations, and every list that existed before it, as they were.
C10_CreateInputFrame ==
    Len(calls') > Len(calls)
        => /\ skill'.name = skill.name
           /\ skill'.description = skill.description
           /\ skill'.parameters = skill.parameters
           /\ skill'.nodes = skill.nodes
           /\ \A r \in 1..Len(heap) : heap'[r] = heap[r]

\* C10: create_input is history-independent and leaves the registration and the
\* raw mapping unchanged, in every sequence of create_input, node, direct-call
\* and append operations.
C10_HistoryIndependent == [](C10_EqualCallsEqualResults) /\ [][C10_CreateInputFrame]_vars

\* C10 witness: two equal calls, a node registration and an append to the first
\* instance's list, and equal contents returned.
C10_Witness ==
    /\ Len(calls) = 2 /\ calls[1].ok /\ calls[2].ok
    /\ calls[1].assistant_id = calls[2].assistant_id
    /\ calls[1].given = calls[2].given
    /\ calls[1].returned = calls[2].returned
    /\ ListRefsOf(1) # {}
    /\ \E r \in ListRefsOf(1) : heap[r] # <<>> /\ heap[r][Len(heap[r])] = "z"
    /\ Len(skill.nodes) = 1

----------------------------------------------------------------------------
(* Properties of declaration construction (specification SpecNames) *)

ReservedKeywords == kwlist

\* The name is non-empty, made of letters, digits and underscores only, does not
\* start with a digit, and is no reserved keyword.
LettersDigitsUnderscoreName(name) ==
    /\ name # <<>>
    /\ \A i \in 1..Len(name) : name[i] \in Letters \cup Digits \cup {"_"}
    /\ name[1] \notin Digits
    /\ name \notin ReservedKeywords

\* The name is non-empty, starts with a letter or an underscore, continues with
\* letters, digits, underscores and the other characters that Unicode allows
\* inside an identifier, and is no reserved keyword.
IdentifierName(name) ==
    /\ name # <<>>
    /\ name[1] \in Letters \cup {"_"}
    /\ \A i \in 1..Len(name) : name[i] \in Letters \cup Digits \cup {"_", MiddleDot}
    /\ name \notin ReservedKeywords

Constructed == decl # NoDecl \/ declError # "none"

\* The validator accepts exactly the names that Accepted describes; construction
\* succeeds exactly on them and fails with a validation error otherwise, so every
\* declaration that exists has such a name.
ValidatorDecides(Accepted(_)) ==
    /\ Constructed =>
          /\ is_valid_parameter_name(declInput.name) <=> Accepted(declInput.name)
          /\ IF Accepted(declInput.name)
             THEN declError = "none" /\ decl # NoDecl /\ decl.name = declInput.name
             ELSE declError = "ValidationError" /\ decl = NoDecl
    /\ decl # NoDecl => Accepted(decl.name)
    /\ (Constructed /\ declInput.name = NameClass) => decl = NoDecl
    /\ (Constructed /\ declInput.name = NameMetric1) => decl # NoDecl

\* C6 as stated: the name validator accepts exactly the non-empty names of
\* letters, digits and underscores that do not start with a digit and are no
\* reserved keyword; constructing a declaration succeeds exactly when it does
\* and fails with a validation error otherwise ("class" is refused, "metric_1"
\* accepted), so every declaration that exists has such a name.
C6_NameValidatorExact == ValidatorDecides(LettersDigitsUnderscoreName)

\* C6 amended: the same of the names that are identifiers: non-empty, starting
\* with a letter or an underscore, continuing with letters, digits, underscores
\* and the other identifier characters of Unicode (such as the middle dot), and
\* no reserved keyword.
C6_NameValidatorIdentifiers == ValidatorDecides(IdentifierName)

\* C6 witness: the construction with name "class" was refused with a validation
\* error.
C6_Witness ==
    /\ declInput.name = NameClass
    /\ declError = "ValidationError"
    /\ decl = NoDecl

----------------------------------------------------------------------------
(* Properties of the report manager (specification SpecReport) *)

\* C8: remove_content_block(block_id), with block_id the text of a UUID as the
\* signature declares, leaves exactly the blocks whose id is not that UUID, in
\* their order, so that no block with that id remains.
C8_RemoveByStringId ==
    (lastOp.op = "remove" /\ lastOp.block_id.t = "str")
        => LET other(block) == uuid_str(block.id) # lastOp.block_id
           IN  /\ blocks = SelectSeq(lastOp.before, other)
               /\ \A k \in 1..Len(blocks) : uuid_str(blocks[k].id) # lastOp.block_id

----------------------------------------------------------------------------
(* Properties of the report manager shared by threads (specification SpecThreads) *)

\* The request of thread log[j].who that precedes request j, or 0.
PrevOfThread(j) ==
    LET earlier == {i \in 1..(j - 1) : log[i].who = log[j].who}
    IN  IF earlier = {} THEN 0 ELSE CHOOSE i \in earlier : \A k \in earlier : k <= i

\* The blocks that the host stores when request j arrives.
StoredBefore(j) ==
    LET writes == {i \in 1..(j - 1) : log[i].ev = "update"}
    IN  IF writes = {} THEN initial
        ELSE log[CHOOSE i \in writes : \A k \in writes : k <= i].content_blocks

\* The call that started with request i has returned.
Returned(i) == \E j \in (i + 1)..Len(log) : log[j].ev = "update" /\ log[j].who = log[i].who

\* The blocks of the calls that have returned, in the order the calls started.
RECURSIVE AddedUpTo(_)
AddedUpTo(n) ==
    IF n = 0 THEN <<>>
    ELSE IF log[n].ev = "get" /\ Returned(n) THEN Append(AddedUpTo(n - 1), log[n].block)
    ELSE AddedUpTo(n - 1)

\* Every call so far ran from its get_report to its update_report with no request
\* of another call in between.
OneAtATime ==
    \A i \in 1..(Len(log) - 1) :
        log[i].ev = "get" => log[i + 1].ev = "update" /\ log[i + 1].who = log[i].who

\* The last four requests are two calls of different threads, both reads served
\* before either write.
BothReadsBeforeEitherWrite ==
    LET n == Len(log)
    IN  /\ n >= 4
        /\ log[n - 3].ev = "get" /\ log[n - 2].ev = "get"
        /\ log[n - 3].who # log[n - 2].who
        /\ log[n - 1].ev = "update" /\ log[n].ev = "update"

\* Each call is one get_report, which reads the stored blocks, then one
\* update_report, whose content_blocks is what was read followed by the new block;
\* the host stores what the latest update_report sent.
C11_GetThenUpdate ==
    /\ \A j \in 1..Len(log) :
          LET i == PrevOfThread(j)
          IN  IF log[j].ev = "get"
              THEN /\ i # 0 => log[i].ev = "update"
                   /\ log[j].content_blocks = StoredBefore(j)
              ELSE /\ i # 0 /\ log[i].ev = "get"
                   /\ log[j].block = log[i].block
                   /\ log[j].content_blocks = log[i].content_blocks \o <<log[i].block>>
    /\ blocks = StoredBefore(Len(log) + 1)

\* After calls made one at a time the report holds its initial blocks followed by
\* every added block in call order.
C11_OneAtATimeKeepsAll ==
    OneAtATime => blocks = initial \o AddedUpTo(Len(log))

\* When both reads come before either write, the report holds both new blocks
\* after what was read.
C11_InterleavedKeepsBoth ==
    BothReadsBeforeEitherWrite
        => LET n == Len(log)
               read == log[n - 3].content_blocks
           IN  blocks \in {read \o <<log[n - 1].block, log[n].block>>,
                           read \o <<log[n].block, log[n - 1].block>>}

\* When both reads come before either write, the report holds what was read
\* followed by the block of the call that wrote last, and nothing else: the block
\* of the call that wrote first is gone.
C11_InterleavedKeepsLastWriter ==
    BothReadsBeforeEitherWrite
        => LET n == Len(log)
               read == log[n - 3].content_blocks
           IN  /\ log[n - 2].content_blocks = read
               /\ blocks = read \o <<log[n].block>>
               /\ Len(blocks) = Len(read) + 1

\* C11 as stated: add_content_block is one get_report followed by one
\* update_report of the blocks read followed by the new block; calls made one at a
\* time keep the initial blocks and every added block in call order; and two calls
\* whose reads both come before either write lose no block.
C11_AddContentBlockLosesNothing ==
    /\ C11_GetThenUpdate
    /\ C11_OneAtATimeKeepsAll
    /\ C11_InterleavedKeepsBoth

\* C11 as amended: add_content_block is one get_report followed by one
\* update_report of the blocks read followed by the new block; calls made one at a
\* time keep the initial blocks and every added block in call order; two calls
\* whose reads both come before either write leave the blocks read followed by
\* the block of the later writer only.
C11_AddContentBlockLastWriterWins ==
    /\ C11_GetThenUpdate
    /\ C11_OneAtATimeKeepsAll
    /\ C11_InterleavedKeepsLastWriter

\* C11: a call made alone has returned, then two calls with different blocks
\* interleaved, both reads before either write, on a report that was not empty.
C11_Witness ==
    /\ Len(log) = 6
    /\ initial # <<>>
    /\ log[1].ev = "get" /\ log[2].ev = "update"
    /\ BothReadsBeforeEitherWrite
    /\ log[5].block # log[6].block
    /\ log[1].block \notin {log[5].block, log[6].block}

====
